---------------------------- MODULE Spec2Model ----------------------------
(***************************************************************************)
(* Model of src/shell/observable.py: the line-of-sight integration of      *)
(* Stokes I, Q, U and of the Faraday depth, and the angle helpers          *)
(* adjust_angles and _adjust_diff.                                         *)
(*                                                                         *)
(* Numbers.  Angles are exact multiples of pi/16: the integer a stands for *)
(* the angle a*pi/16, so pi is 16 and 2*pi is 32.  On that lattice atan of *)
(* the ratios 0, +-1, +-inf is exact; so are sin and cos of twice an angle *)
(* Field values, depths and wavelengths are integers in units chosen so    *)
(* that every quotient the code forms (the halves of the trapezoid rule,   *)
(* the polarization degree 3/4, the kernel weights) is exact: the model    *)
(* is the code in exact arithmetic, without floating-point rounding.       *)
(***************************************************************************)
EXTENDS Integers, Sequences, FiniteSets

VARIABLES
    fn,          \* the function that was called
    pc,          \* position inside that function's body
    args,        \* the arguments of the call, as the caller passed them
    depth_grid,  \* local depth_grid (rebound by the legacy shim)
    emissivity,  \* local emissivity[c][k]
    I,           \* Stokes I map, a quantity [value, unit]
    psi0,        \* intrinsic polarization angle psi0[c][k]
    RM,          \* cumulative Faraday rotation (compute_stokes_parameters) or
                 \* Faraday depth map (compute_fd)
    psi,         \* rotated angle grid; the scalar loop variable of adjust_angles
    U,           \* Stokes U map
    Q,           \* Stokes Q map
    diff,        \* the loop variable of _adjust_diff
    iters,       \* number of loop iterations executed by the angle helpers
    warnings,    \* warnings emitted so far (sequence of category names)
    ret          \* the value returned, or the exception raised

vars == <<fn, pc, args, depth_grid, emissivity, I, psi0, RM, psi, U, Q, diff,
          iters, warnings, ret>>

---------------------------------------------------------------------------
(* Bounds of the model *)

\* angles handed to adjust_angles / _adjust_diff range over -MaxAngle..MaxAngle
\* (in units of pi/16: 84 is a little more than five half-turns each way)
MaxAngle == 84

\* number of depth samples along the line of sight (axis=2)
NZ == 3

\* number of spatial columns (pixels of the maps)
NX == 2

---------------------------------------------------------------------------
(* Constants of the program *)

\* pi, in units of pi/16 (np.pi)
pi == 16

None == "None"
Unset == "unset"

\* an element of a float array that may hold nan: <<v>> is the number v
Num(v) == <<v>>
NaN == <<>>
Val(f) == f[1]

Abs(x) == IF x < 0 THEN -x ELSE x

---------------------------------------------------------------------------
(* adjust_angles: the two reduction loops *)

\* while (psi > pi)
AdjustAnglesCond1(p) == p > pi

\* variant: the second test made strict, so that -pi is left alone
AdjustAnglesCond2_strict(p) == p < -pi

\* while (psi <= -pi)
AdjustAnglesCond2(p) == p <= -pi

RECURSIVE AdjustAnglesLoop1(_)
AdjustAnglesLoop1(p) ==
    IF AdjustAnglesCond1(p) THEN AdjustAnglesLoop1(p - 2 * pi) ELSE p

RECURSIVE AdjustAnglesLoop2(_)
AdjustAnglesLoop2(p) ==
    IF AdjustAnglesCond2(p) THEN AdjustAnglesLoop2(p + 2 * pi) ELSE p

\* the function as a whole, as compute_Psi applies it element-wise
adjust_angles(p) == AdjustAnglesLoop2(AdjustAnglesLoop1(p))

---------------------------------------------------------------------------
(* _adjust_diff: the two reduction loops *)

\* variant: the test of adjust_angles copied into _adjust_diff
DiffCond1_copied(d) == d > pi

\* variant: the first test made non-strict, so that a tie is shifted
DiffCond1_nonstrict(d) == Abs(d - pi) <= Abs(d)

\* while (abs(diff-pi) < abs(diff))
DiffCond1(d) == Abs(d - pi) < Abs(d)

\* variant: the second test made non-strict, so that a tie is shifted
DiffCond2_nonstrict(d) == Abs(d + pi) <= Abs(d)

\* while (abs(diff+pi) < abs(diff))
DiffCond2(d) == Abs(d + pi) < Abs(d)

RECURSIVE DiffLoop1(_)
DiffLoop1(d) == IF DiffCond1(d) THEN DiffLoop1(d - pi) ELSE d

RECURSIVE DiffLoop2(_)
DiffLoop2(d) == IF DiffCond2(d) THEN DiffLoop2(d + pi) ELSE d

_adjust_diff(d) == DiffLoop2(DiffLoop1(d))

---------------------------------------------------------------------------
(* Calls of the angle helpers, one loop iteration per step *)

Angles == -MaxAngle .. MaxAngle

NoLocals ==
    /\ depth_grid = Unset /\ emissivity = Unset /\ I = Unset /\ psi0 = Unset
    /\ RM = Unset /\ U = Unset /\ Q = Unset /\ warnings = <<>> /\ ret = Unset

InitAdjustAngles ==
    /\ fn = "adjust_angles"
    /\ pc = "while1"
    /\ \E t \in Angles : args = [psi |-> t] /\ psi = t
    /\ diff = Unset /\ iters = 0
    /\ NoLocals

InitAdjustDiff ==
    /\ fn = "_adjust_diff"
    /\ pc = "while1"
    /\ \E d \in Angles : args = [diff |-> d] /\ diff = d
    /\ psi = Unset /\ iters = 0
    /\ NoLocals

PipelineUnchanged ==
    UNCHANGED <<fn, args, depth_grid, emissivity, I, psi0, RM, U, Q, warnings>>

\* lines 203-204
AdjustAnglesWhile1 ==
    /\ fn = "adjust_angles" /\ pc = "while1"
    /\ IF AdjustAnglesCond1(psi)
          THEN /\ psi' = psi - 2 * pi
               /\ iters' = iters + 1
               /\ pc' = pc
          ELSE /\ pc' = "while2"
               /\ UNCHANGED <<psi, iters>>
    /\ UNCHANGED <<diff, ret>>
    /\ PipelineUnchanged

\* lines 205-206
AdjustAnglesWhile2 ==
    /\ fn = "adjust_angles" /\ pc = "while2"
    /\ IF AdjustAnglesCond2(psi)
          THEN /\ psi' = psi + 2 * pi
               /\ iters' = iters + 1
               /\ pc' = pc
          ELSE /\ pc' = "return"
               /\ UNCHANGED <<psi, iters>>
    /\ UNCHANGED <<diff, ret>>
    /\ PipelineUnchanged

\* line 207
AdjustAnglesReturn ==
    /\ fn = "adjust_angles" /\ pc = "return"
    /\ ret' = psi
    /\ pc' = "done"
    /\ UNCHANGED <<psi, diff, iters>>
    /\ PipelineUnchanged

\* lines 226-227
AdjustDiffWhile1 ==
    /\ fn = "_adjust_diff" /\ pc = "while1"
    /\ IF DiffCond1(diff)
          THEN /\ diff' = diff - pi
               /\ iters' = iters + 1
               /\ pc' = pc
          ELSE /\ pc' = "while2"
               /\ UNCHANGED <<diff, iters>>
    /\ UNCHANGED <<psi, ret>>
    /\ PipelineUnchanged

\* lines 228-229
AdjustDiffWhile2 ==
    /\ fn = "_adjust_diff" /\ pc = "while2"
    /\ IF DiffCond2(diff)
          THEN /\ diff' = diff + pi
               /\ iters' = iters + 1
               /\ pc' = pc
          ELSE /\ pc' = "return"
               /\ UNCHANGED <<diff, iters>>
    /\ UNCHANGED <<psi, ret>>
    /\ PipelineUnchanged

\* line 230
AdjustDiffReturn ==
    /\ fn = "_adjust_diff" /\ pc = "return"
    /\ ret' = diff
    /\ pc' = "done"
    /\ UNCHANGED <<psi, diff, iters>>
    /\ PipelineUnchanged

---------------------------------------------------------------------------
(* Quantities and units (astropy.units) *)

\* a quantity: a value (a number or an array) tagged with a unit; a unit is
\* the sequence of its base-unit factors, <<"uG">> or <<"cm-3", "uG", "uG">>
Qty(v, u) == [value |-> v, unit |-> u]

UnitMul(u1, u2) == u1 \o u2

RECURSIVE UnitPow(_, _)
UnitPow(u1, n) == IF n = 0 THEN <<>> ELSE u1 \o UnitPow(u1, n - 1)

\* physical type of a base unit
UnitDim(b) ==
    CASE b \in {"uG", "mG"} -> "magnetic flux density"
      [] b \in {"cm-3", "mm-3"} -> "number density"
      [] b \in {"pc", "kpc", "m"} -> "length"
      [] OTHER -> b

\* size of a base unit in the smallest unit of its physical type used here
UnitScale(b) ==
    CASE b \in {"mG", "mm-3", "kpc"} -> 1000
      [] OTHER -> 1

\* whether Quantity.to_value(target) succeeds
Convertible(q, target) ==
    /\ Len(q.unit) = 1
    /\ UnitDim(q.unit[1]) = UnitDim(target)

\* Quantity.to_value(target) of a 3D array (raises when not Convertible)
to_value(q, target) ==
    [c \in DOMAIN q.value |->
        [k \in DOMAIN q.value[c] |->
            (q.value[c][k] * UnitScale(q.unit[1])) \div UnitScale(target)]]

\* Quantity.to_value(target) of the 1D depth axis
to_value1(q, target) ==
    [k \in DOMAIN q.value |->
        (q.value[k] * UnitScale(q.unit[1])) \div UnitScale(target)]

---------------------------------------------------------------------------
(* Numerical helpers *)

RECURSIVE Pow(_, _)
Pow(b, e) == IF e = 0 THEN 1 ELSE b * Pow(b, e - 1)

\* variant: the sample spacing ignored (dx = 1)
TrapzTerm_unit_spacing(y, x, k) == (y[k + 1] + y[k]) \div 2

\* one interval of the trapezoid rule: d * (y[1:] + y[:-1]) / 2.0
TrapzTerm(y, x, k) == ((x[k + 1] - x[k]) * (y[k + 1] + y[k])) \div 2

RECURSIVE SumTerms(_, _, _)
SumTerms(y, x, n) ==
    IF n = 0 THEN 0 ELSE SumTerms(y, x, n - 1) + TrapzTerm(y, x, n)

\* scipy.integrate.trapz(y, x) along the depth axis of one column
trapz(y, x) == SumTerms(y, x, Len(x) - 1)

\* integrate = trapz
integrate(y, x) == trapz(y, x)

\* np.cumsum(t): the running totals of t, built front to back
RECURSIVE cumsum(_)
cumsum(t) ==
    IF t = <<>> THEN <<>>
    ELSE LET front == cumsum(SubSeq(t, 1, Len(t) - 1))
         IN  Append(front,
                    (IF front = <<>> THEN 0 ELSE front[Len(front)]) + t[Len(t)])

\* variant: the total integral at every depth instead of the running one
cumtrapz_total(y, x, initial) == [k \in 1 .. Len(x) |-> trapz(y, x)]

\* scipy.integrate.cumtrapz(y, x, initial=initial) of one column: the
\* running sum of the interval terms, with `initial` put in front
cumtrapz(y, x, initial) ==
    <<initial>> \o cumsum([k \in 1 .. Len(x) - 1 |-> TrapzTerm(y, x, k)])

\* np.arctan(By/Bx) on the lattice of angles; 0/0 is nan, x/0 is +-inf
\* and arctan(+-inf) = +-pi/2
arctan_ratio(by, bx) ==
    CASE bx = 0 /\ by = 0 -> NaN
      [] bx = 0 /\ by > 0 -> Num(pi \div 2)
      [] bx = 0 /\ by < 0 -> Num(-(pi \div 2))
      [] bx # 0 /\ by = 0 -> Num(0)
      [] bx # 0 /\ by = bx -> Num(pi \div 4)
      [] bx # 0 /\ by = -bx -> Num(-(pi \div 4))

\* np.cos and np.sin of an angle that is a multiple of pi/2
cos(a) ==
    CASE a % (2 * pi) = 0 -> 1
      [] a % (2 * pi) = pi \div 2 -> 0
      [] a % (2 * pi) = pi -> -1
      [] a % (2 * pi) = 3 * (pi \div 2) -> 0

sin(a) ==
    CASE a % (2 * pi) = 0 -> 0
      [] a % (2 * pi) = pi \div 2 -> 1
      [] a % (2 * pi) = pi -> 0
      [] a % (2 * pi) = 3 * (pi \div 2) -> -1

\* scipy.ndimage 'reflect' boundary, repeated as far as the kernel reaches:
\* (... a b c | c b a | a b c | c b a | a b c ...)
Reflect(i, n) ==
    LET j == (i - 1) % (2 * n)
    IN  IF j < n THEN j + 1 ELSE 2 * n - j

\* a filtered value, whole + micro / Micro with 0 <= micro < Micro: the
\* float the code holds, to the precision of the kernel weights below
Micro == 1000000
Decimal(whole, micro) == [whole |-> whole, micro |-> micro]

\* the standard deviations explored, by their decimal names, in tenths
SigmaTenths(sigma) ==
    CASE sigma = "0.3" -> 3
      [] sigma = "1" -> 10

\* radius = int(truncate * sd + 0.5), truncate = 4.0
KernelRadius(sigma) == (4 * SigmaTenths(sigma) + 5) \div 10

\* the kernel exp(-x**2 / (2*sigma**2)) / sum for x = 0 .. radius, in
\* millionths (rounded; the weights of x = -radius .. radius add up to Micro)
KernelWeights(sigma) ==
    CASE sigma = "0.3" -> <<992328, 3836>>
      [] sigma = "1" -> <<398944, 241971, 53991, 4432, 134>>

\* the sample the kernel reads at offset o from pixel c
Tap(m, c, o) == m[Reflect(c + o, Len(m))]

\* sum over the offsets o .. r of part(weight) * sample, where part takes
\* the thousands or the rest of a weight
RECURSIVE TapSum(_, _, _, _, _, _)
TapSum(m, c, w, o, r, high) ==
    IF o > r THEN 0
    ELSE (IF high THEN w[Abs(o) + 1] \div 1000 ELSE w[Abs(o) + 1] % 1000)
             * Tap(m, c, o)
         + TapSum(m, c, w, o + 1, r, high)

\* the correlation of the row m with the kernel at pixel c, as a Decimal.
\* The sum of weight * sample is 1000 * hi + lo millionths; it is split so
\* that no intermediate exceeds 32 bits.
Correlate(m, c, sigma) ==
    LET r == KernelRadius(sigma)
        w == KernelWeights(sigma)
        hi == TapSum(m, c, w, -r, r, TRUE)
        lo == TapSum(m, c, w, -r, r, FALSE)
        rest == 1000 * (hi % 1000) + lo
    IN  Decimal(hi \div 1000 + rest \div Micro, rest % Micro)

\* scipy.ndimage.gaussian_filter(m, sigma) of a map with one row of pixels:
\* the pass along the axis of length one reads the same pixel at every
\* offset and leaves it, the pass along the row is the correlation above
gaussian_filter(m, sigma) == [c \in DOMAIN m |-> Correlate(m, c, sigma)]

---------------------------------------------------------------------------
(* compute_stokes_parameters and compute_fd, statement by statement.       *)
(* A 3D array a is indexed a[c][k]: c the spatial column (the first two    *)
(* axes, flattened), k the depth sample (axis=2).                          *)

\* the default of the parameter gamma
gamma == 3

\* hasattr(depth_grid, 'z')
HasZ(dg) == "z" \in DOMAIN dg

\* variant: the wrong coordinate array of the grid object taken
ShimTarget_x(dg) == IF HasZ(dg) THEN dg.x ELSE dg

\* depth_grid = depth_grid.z, on the legacy path only
ShimTarget(dg) == IF HasZ(dg) THEN dg.z ELSE dg

\* the DeprecationWarning of the legacy path
ShimWarning(dg) == IF HasZ(dg) THEN <<"DeprecationWarning">> ELSE <<>>

\* Bperp2 = Bx**2+By**2
Bperp2(Bx, By) ==
    Qty([c \in DOMAIN Bx.value |-> [k \in DOMAIN Bx.value[c] |->
            Bx.value[c][k] * Bx.value[c][k] + By.value[c][k] * By.value[c][k]]],
        UnitPow(Bx.unit, 2))

\* emissivity = ncr * Bperp2**((gamma+1)/4) * wavelength**((gamma-1)/2)
Emissivity(ncr, Bx, By, wavelength, g) ==
    LET b2 == Bperp2(Bx, By)
    IN  Qty([c \in DOMAIN b2.value |-> [k \in DOMAIN b2.value[c] |->
                ncr.value[c][k] * Pow(b2.value[c][k], (g + 1) \div 4)
                                * Pow(wavelength.value, (g - 1) \div 2)]],
            UnitMul(ncr.unit,
                    UnitMul(UnitPow(b2.unit, (g + 1) \div 4),
                            UnitPow(wavelength.unit, (g - 1) \div 2))))

\* variant: every pixel integrated along the line of sight of the first one
IntegrateMap_first_column(y, dg) ==
    Qty([c \in DOMAIN y.value |-> integrate(y.value[1], dg.value)],
        UnitMul(y.unit, dg.unit))

\* integrate(y, depth_grid, axis=2): one value per column
IntegrateMap(y, dg) ==
    Qty([c \in DOMAIN y.value |-> integrate(y.value[c], dg.value)],
        UnitMul(y.unit, dg.unit))

\* psi0 = np.arctan(By/Bx) + pi/2
Psi0Raw(Bx, By) ==
    [c \in DOMAIN Bx.value |-> [k \in DOMAIN Bx.value[c] |->
        LET a == arctan_ratio(By.value[c][k], Bx.value[c][k])
        IN  IF a = NaN THEN NaN ELSE Num(Val(a) + pi \div 2)]]

\* the RuntimeWarnings numpy emits for By/Bx: 0/0 and x/0
DivideWarnings(Bx, By) ==
    (IF \E c \in DOMAIN Bx.value : \E k \in DOMAIN Bx.value[c] :
            Bx.value[c][k] = 0 /\ By.value[c][k] # 0
        THEN <<"RuntimeWarning">> ELSE <<>>)
    \o
    (IF \E c \in DOMAIN Bx.value : \E k \in DOMAIN Bx.value[c] :
            Bx.value[c][k] = 0 /\ By.value[c][k] = 0
        THEN <<"RuntimeWarning">> ELSE <<>>)

\* variant: the mask taken where either component is zero
DegenerateMask_either(bx, by) == (by = 0) \/ (bx = 0)

\* ok = (By == 0) * (Bx == 0)
DegenerateMask(bx, by) == (by = 0) /\ (bx = 0)

\* psi0[ok] = 0
Psi0Degenerate(p0, Bx, By) ==
    [c \in DOMAIN p0 |-> [k \in DOMAIN p0[c] |->
        IF DegenerateMask(Bx.value[c][k], By.value[c][k]) THEN Num(0)
        ELSE p0[c][k]]]

\* variant: the first test of the wrap made inclusive, so that pi is shifted
Greater_inclusive(a, b) == a # NaN /\ Val(a) >= b

\* a comparison with nan is False
Greater(a, b) == a # NaN /\ Val(a) > b
Less(a, b) == a # NaN /\ Val(a) < b

\* psi0[psi0>pi] = psi0[psi0>pi]-2*pi, then psi0[psi0<-pi] = psi0[psi0<-pi]+2*pi
Psi0Wrap(p0) ==
    LET down == [c \in DOMAIN p0 |-> [k \in DOMAIN p0[c] |->
                    IF Greater(p0[c][k], pi) THEN Num(Val(p0[c][k]) - 2 * pi)
                    ELSE p0[c][k]]]
    IN  [c \in DOMAIN p0 |-> [k \in DOMAIN p0[c] |->
            IF Less(down[c][k], -pi) THEN Num(Val(down[c][k]) + 2 * pi)
            ELSE down[c][k]]]

\* the calibration constant 0.812 rad/m**2, in lattice steps per unit of
\* wavelength**2 * uG * cm**-3 * pc (wavelengths are counted in the unit
\* that makes 0.812 rad/m**2 * wavelength**2 a quarter of pi)
K0 == 4

\* integrand = Bz.to_value(u.microgauss)*ne.to_value(u.cm**-3)
Integrand(Bz, ne) ==
    LET b == to_value(Bz, "uG")
        n == to_value(ne, "cm-3")
    IN  [c \in DOMAIN b |-> [k \in DOMAIN b[c] |-> b[c][k] * n[c][k]]]

\* variant: only the unit of Bz checked
IntegrandRaises_Bz_only(Bz, ne) == ~Convertible(Bz, "uG")

\* whether forming the integrand raises UnitConversionError
IntegrandRaises(Bz, ne) == ~Convertible(Bz, "uG") \/ ~Convertible(ne, "cm-3")

\* variant: the wavelength test dropped, the integral always computed
RotationSkipped_never(wavelength) == FALSE

\* the test `wavelength != 0`, negated
RotationSkipped(wavelength) == wavelength.value = 0

\* RM = (0.812*u.rad/u.m**2) * cumtrapz(integrand, depth_grid.to_value(u.pc),
\*                                      axis=2, initial=0)
CumulativeRM(Bz, ne, dg) ==
    LET y == Integrand(Bz, ne)
        x == to_value1(dg, "pc")
    IN  [value |-> [c \in DOMAIN y |->
                       LET cum == cumtrapz(y[c], x, 0)
                       IN  [k \in DOMAIN cum |-> K0 * cum[k]]],
         unit |-> <<"rad", "m-2">>, scalar |-> FALSE]

\* RM = 0.0 * u.rad/u.m**2
ZeroRM == [value |-> 0, unit |-> <<"rad", "m-2">>, scalar |-> TRUE]

\* psi = psi0 + wavelength**2*RM
RotatedAngle(p0, wavelength, rm) ==
    [c \in DOMAIN p0 |-> [k \in DOMAIN p0[c] |->
        IF p0[c][k] = NaN THEN NaN
        ELSE Num(Val(p0[c][k]) + wavelength.value * wavelength.value
                     * (IF rm.scalar THEN rm.value ELSE rm.value[c][k]))]]

\* p0 = (gamma+1)/(gamma+7/3), applied to x: p0*x
TimesP0(g, x) == (3 * (g + 1) * x) \div (3 * g + 7)

\* U = p0*integrate(emissivity * np.sin(2*psi), depth_grid, axis=2)
StokesU(em, ps, dg, g) ==
    Qty([c \in DOMAIN em.value |->
            TimesP0(g, integrate([k \in DOMAIN em.value[c] |->
                                     em.value[c][k] * sin(2 * Val(ps[c][k]))],
                                 dg.value))],
        UnitMul(em.unit, dg.unit))

\* Q = p0*integrate(emissivity * np.cos(2*psi), depth_grid, axis=2)
StokesQ(em, ps, dg, g) ==
    Qty([c \in DOMAIN em.value |->
            TimesP0(g, integrate([k \in DOMAIN em.value[c] |->
                                     em.value[c][k] * cos(2 * Val(ps[c][k]))],
                                 dg.value))],
        UnitMul(em.unit, dg.unit))

\* gaussian_filter(Stokes.value, sigma=beam_kernel_sd)*Stokes.unit
Smooth(m, sd) == Qty(gaussian_filter(m.value, sd), m.unit)

\* variant: the smoothed maps assigned in the order I, Q, U
BeamStokes_swapped(i, u, q, sd) ==
    IF sd # None THEN <<Smooth(i, sd), Smooth(q, sd), Smooth(u, sd)>>
    ELSE <<i, u, q>>

\* if beam_kernel_sd is not None:
\*     I, U, Q = [ gaussian_filter(...)*Stokes.unit for Stokes in (I, U, Q) ]
BeamStokes(i, u, q, sd) ==
    IF sd # None THEN <<Smooth(i, sd), Smooth(u, sd), Smooth(q, sd)>>
    ELSE <<i, u, q>>

\* RM = (0.812*u.rad/u.m**2) * trapz(integrand, depth_grid.to_value(u.pc), axis=2)
FaradayDepth(Bz, ne, dg) ==
    LET y == Integrand(Bz, ne)
        x == to_value1(dg, "pc")
    IN  Qty([c \in DOMAIN y |-> K0 * trapz(y[c], x)], <<"rad", "m-2">>)

\* if beam_kernel_sd is not None: RM = gaussian_filter(RM.value, ...)*RM.unit
BeamFd(rm, sd) == IF sd # None THEN Smooth(rm, sd) ELSE rm

Raised(e) == [exception |-> e]

\* compute_stokes_parameters as a whole: what a call with the arguments a
\* returns (the tuple of line 96) or raises
compute_stokes_parameters(a) ==
    LET dg == ShimTarget(a.depth_grid)
        em == Emissivity(a.ncr, a.Bx, a.By, a.wavelength, a.gamma)
        i0 == IntegrateMap(em, dg)
        p0 == Psi0Wrap(Psi0Degenerate(Psi0Raw(a.Bx, a.By), a.Bx, a.By))
    IN  IF ~RotationSkipped(a.wavelength) /\ IntegrandRaises(a.Bz, a.ne)
        THEN Raised("UnitConversionError")
        ELSE LET rm == IF RotationSkipped(a.wavelength) THEN ZeroRM
                       ELSE CumulativeRM(a.Bz, a.ne, dg)
                 ps == RotatedAngle(p0, a.wavelength, rm)
                 u0 == StokesU(em, ps, dg, a.gamma)
                 q0 == StokesQ(em, ps, dg, a.gamma)
             IN  BeamStokes(i0, u0, q0, a.beam_kernel_sd)

\* compute_fd as a whole: what a call with the arguments a returns or raises
compute_fd(a) ==
    LET dg == ShimTarget(a.depth_grid)
    IN  IF IntegrandRaises(a.Bz, a.ne)
        THEN Raised("UnitConversionError")
        ELSE BeamFd(FaradayDepth(a.Bz, a.ne, dg), a.beam_kernel_sd)

AnglesUnchanged == UNCHANGED <<diff, iters>>

\* lines 48-51
StokesShim ==
    /\ fn = "compute_stokes_parameters" /\ pc = "entry"
    /\ warnings' = warnings \o ShimWarning(depth_grid)
    /\ depth_grid' = ShimTarget(depth_grid)
    /\ pc' = "emissivity"
    /\ UNCHANGED <<fn, args, emissivity, I, psi0, RM, psi, U, Q, ret>>
    /\ AnglesUnchanged

\* lines 53-58
StokesEmissivity ==
    /\ fn = "compute_stokes_parameters" /\ pc = "emissivity"
    /\ emissivity' = Emissivity(args.ncr, args.Bx, args.By, args.wavelength,
                                args.gamma)
    /\ I' = IntegrateMap(emissivity', depth_grid)
    /\ pc' = "psi0"
    /\ UNCHANGED <<fn, args, depth_grid, psi0, RM, psi, U, Q, warnings, ret>>
    /\ AnglesUnchanged

\* line 61
StokesPsi0 ==
    /\ fn = "compute_stokes_parameters" /\ pc = "psi0"
    /\ psi0' = Psi0Raw(args.Bx, args.By)
    /\ warnings' = warnings \o DivideWarnings(args.Bx, args.By)
    /\ pc' = "degenerate"
    /\ UNCHANGED <<fn, args, depth_grid, emissivity, I, RM, psi, U, Q, ret>>
    /\ AnglesUnchanged

\* lines 65-66
StokesDegenerate ==
    /\ fn = "compute_stokes_parameters" /\ pc = "degenerate"
    /\ psi0' = Psi0Degenerate(psi0, args.Bx, args.By)
    /\ pc' = "wrap"
    /\ UNCHANGED <<fn, args, depth_grid, emissivity, I, RM, psi, U, Q,
                   warnings, ret>>
    /\ AnglesUnchanged

\* lines 69-70
StokesWrap ==
    /\ fn = "compute_stokes_parameters" /\ pc = "wrap"
    /\ psi0' = Psi0Wrap(psi0)
    /\ pc' = "faraday"
    /\ UNCHANGED <<fn, args, depth_grid, emissivity, I, RM, psi, U, Q,
                   warnings, ret>>
    /\ AnglesUnchanged

\* lines 73-80
StokesFaraday ==
    /\ fn = "compute_stokes_parameters" /\ pc = "faraday"
    /\ IF RotationSkipped(args.wavelength)
          THEN /\ RM' = ZeroRM
               /\ pc' = "stokes"
               /\ ret' = ret
          ELSE IF IntegrandRaises(args.Bz, args.ne)
                  THEN /\ ret' = Raised("UnitConversionError")
                       /\ pc' = "raised"
                       /\ RM' = RM
                  ELSE /\ RM' = CumulativeRM(args.Bz, args.ne, depth_grid)
                       /\ pc' = "stokes"
                       /\ ret' = ret
    /\ UNCHANGED <<fn, args, depth_grid, emissivity, I, psi0, psi, U, Q,
                   warnings>>
    /\ AnglesUnchanged

\* lines 83-90
StokesQU ==
    /\ fn = "compute_stokes_parameters" /\ pc = "stokes"
    /\ psi' = RotatedAngle(psi0, args.wavelength, RM)
    /\ U' = StokesU(emissivity, psi', depth_grid, args.gamma)
    /\ Q' = StokesQ(emissivity, psi', depth_grid, args.gamma)
    /\ pc' = "beam"
    /\ UNCHANGED <<fn, args, depth_grid, emissivity, I, psi0, RM, warnings,
                   ret>>
    /\ AnglesUnchanged

\* lines 92-94
StokesBeam ==
    /\ fn = "compute_stokes_parameters" /\ pc = "beam"
    /\ LET smoothed == BeamStokes(I, U, Q, args.beam_kernel_sd)
       IN  /\ I' = smoothed[1]
           /\ U' = smoothed[2]
           /\ Q' = smoothed[3]
    /\ pc' = "return"
    /\ UNCHANGED <<fn, args, depth_grid, emissivity, psi0, RM, psi, warnings,
                   ret>>
    /\ AnglesUnchanged

\* line 96: return I, U, Q
StokesReturn ==
    /\ fn = "compute_stokes_parameters" /\ pc = "return"
    /\ ret' = <<I, U, Q>>
    /\ pc' = "done"
    /\ UNCHANGED <<fn, args, depth_grid, emissivity, I, psi0, RM, psi, U, Q,
                   warnings>>
    /\ AnglesUnchanged

\* lines 123-127
FdShim ==
    /\ fn = "compute_fd" /\ pc = "entry"
    /\ warnings' = warnings \o ShimWarning(depth_grid)
    /\ depth_grid' = ShimTarget(depth_grid)
    /\ pc' = "integrate"
    /\ UNCHANGED <<fn, args, emissivity, I, psi0, RM, psi, U, Q, ret>>
    /\ AnglesUnchanged

\* lines 129-132
FdIntegrate ==
    /\ fn = "compute_fd" /\ pc = "integrate"
    /\ IF IntegrandRaises(args.Bz, args.ne)
          THEN /\ ret' = Raised("UnitConversionError")
               /\ pc' = "raised"
               /\ RM' = RM
          ELSE /\ RM' = FaradayDepth(args.Bz, args.ne, depth_grid)
               /\ pc' = "beam"
               /\ ret' = ret
    /\ UNCHANGED <<fn, args, depth_grid, emissivity, I, psi0, psi, U, Q,
                   warnings>>
    /\ AnglesUnchanged

\* lines 133-134
FdBeam ==
    /\ fn = "compute_fd" /\ pc = "beam"
    /\ RM' = BeamFd(RM, args.beam_kernel_sd)
    /\ pc' = "return"
    /\ UNCHANGED <<fn, args, depth_grid, emissivity, I, psi0, psi, U, Q,
                   warnings, ret>>
    /\ AnglesUnchanged

\* line 136
FdReturn ==
    /\ fn = "compute_fd" /\ pc = "return"
    /\ ret' = RM
    /\ pc' = "done"
    /\ UNCHANGED <<fn, args, depth_grid, emissivity, I, psi0, RM, psi, U, Q,
                   warnings>>
    /\ AnglesUnchanged

---------------------------------------------------------------------------
(* The calls of compute_stokes_parameters and compute_fd that are explored *)

Cols == 1 .. NX
Ks == 1 .. NZ

\* the voxels the first column is made of, sample by sample: the values of
\* Bx, By, Bz, ne and ncr at one grid point
Voxels ==
    { [Bx |-> 1, By |-> 0, Bz |-> 0, ne |-> 0, ncr |-> 16],
      [Bx |-> 0, By |-> 0, Bz |-> 1, ne |-> 1, ncr |-> 16],
      [Bx |-> 0, By |-> 1, Bz |-> -1, ne |-> 1, ncr |-> 16] }

\* the voxels the other columns are filled with, the same at every depth
UniformVoxels ==
    Voxels \cup
    { [Bx |-> 1, By |-> 1, Bz |-> 0, ne |-> 1, ncr |-> 32],
      [Bx |-> 0, By |-> -1, Bz |-> 1, ne |-> 2, ncr |-> 16],
      [Bx |-> -1, By |-> 1, Bz |-> -1, ne |-> 2, ncr |-> 32],
      [Bx |-> -1, By |-> 0, Bz |-> 0, ne |-> 1, ncr |-> 16] }

\* the grids: the first column is any sequence of Voxels, the others are
\* uniform along the line of sight
Grids ==
    { [c \in Cols |-> IF c = 1 THEN col ELSE [k \in Ks |-> v]] :
        col \in [Ks -> Voxels], v \in UniformVoxels }

\* strictly increasing depth samples: evenly spaced (0, 2, 4, ...), and
\* unevenly spaced (0, 2, 6, 8, 12, ...)
UniformDepth == [k \in Ks |-> 2 * (k - 1)]
UnevenDepth == [k \in Ks |-> 2 * (k - 1) + 4 * ((k - 1) \div 2)]
DepthArrays == {UniformDepth, UnevenDepth}

Field(g, name, unit) ==
    Qty([c \in Cols |-> [k \in Ks |-> g[c][k][name]]], unit)

\* a bare depth array, or a legacy grid object that holds it as attribute z
DepthArgs(z) ==
    { Qty(z, <<"pc">>),
      [x |-> Qty([k \in Ks |-> 10 * k], <<"pc">>), z |-> Qty(z, <<"pc">>)] }

Wavelengths == {0, 1}
\* beam_kernel_sd: None, or a standard deviation in pixels, by its decimal name
BeamSds == {None, "0.3", "1"}
\* the units of Bz and of ne: convertible to uG and cm**-3, or not
FieldUnits ==
    { <<"uG", "cm-3">>, <<"mG", "cm-3">>, <<"pc", "cm-3">>, <<"uG", "pc">> }

NoAngleLocals == diff = Unset /\ iters = 0

InitStokes ==
    /\ fn = "compute_stokes_parameters"
    /\ pc = "entry"
    /\ \E g \in Grids, z \in DepthArrays, w \in Wavelengths, sd \in BeamSds,
          fu \in FieldUnits :
          \E dg \in DepthArgs(z) :
             args = [depth_grid |-> dg,
                     wavelength |-> Qty(w, <<"m">>),
                     Bx |-> Field(g, "Bx", <<"uG">>),
                     By |-> Field(g, "By", <<"uG">>),
                     Bz |-> Field(g, "Bz", <<fu[1]>>),
                     ne |-> Field(g, "ne", <<fu[2]>>),
                     ncr |-> Field(g, "ncr", <<"cm-3">>),
                     gamma |-> gamma,
                     beam_kernel_sd |-> sd]
    /\ depth_grid = args.depth_grid
    /\ emissivity = Unset /\ I = Unset /\ psi0 = Unset /\ RM = Unset
    /\ psi = Unset /\ U = Unset /\ Q = Unset /\ warnings = <<>> /\ ret = Unset
    /\ NoAngleLocals

InitFd ==
    /\ fn = "compute_fd"
    /\ pc = "entry"
    /\ \E g \in Grids, z \in DepthArrays, sd \in BeamSds, fu \in FieldUnits :
          \E dg \in DepthArgs(z) :
             args = [depth_grid |-> dg,
                     Bz |-> Field(g, "Bz", <<fu[1]>>),
                     ne |-> Field(g, "ne", <<fu[2]>>),
                     beam_kernel_sd |-> sd]
    /\ depth_grid = args.depth_grid
    /\ emissivity = Unset /\ I = Unset /\ psi0 = Unset /\ RM = Unset
    /\ psi = Unset /\ U = Unset /\ Q = Unset /\ warnings = <<>> /\ ret = Unset
    /\ NoAngleLocals

---------------------------------------------------------------------------
(* compute_RM, statement by statement.  The angles and wavelengths are    *)
(* scalars here: every statement of compute_RM is element-wise.            *)

RECURSIVE GCD(_, _)
GCD(a, b) == IF b = 0 THEN a ELSE GCD(b, a % b)

\* the quotient n/d of two numbers, d # 0, in lowest terms with a positive
\* denominator: equal quotients are equal records
Quotient(n, d) ==
    LET g == GCD(Abs(n), Abs(d))
        s == IF d < 0 THEN -1 ELSE 1
    IN  [num |-> (s * n) \div g, den |-> (s * d) \div g]

\* diff = Psi2 - Psi1
AngleDifference(Psi1, Psi2) == Qty(Psi2.value - Psi1.value, <<"rad">>)

\* diff = _adjust_diff(diff.to_value(u.rad))*u.rad
AdjustedDifference(d) == Qty(_adjust_diff(d.value), <<"rad">>)

\* diff / (lambda2**2 - lambda1**2)
RMQuotient(d, lambda1, lambda2) ==
    Qty(Quotient(d.value, Pow(lambda2.value, 2) - Pow(lambda1.value, 2)),
        <<"rad", "m-2">>)

\* compute_RM as a whole: what a call with the arguments a returns
compute_RM(a) ==
    RMQuotient(AdjustedDifference(AngleDifference(a.Psi1, a.Psi2)),
               a.lambda1, a.lambda2)

\* the polarization angles explored: the multiples of pi/4 from -pi to pi
PsiValues == {k * (pi \div 4) : k \in -4 .. 4}

\* the wavelengths explored
Lambdas == {-1, 1, 2, 3}

InitRM ==
    /\ fn = "compute_RM"
    /\ pc = "entry"
    /\ \E p1 \in PsiValues, p2 \in PsiValues, l1 \in Lambdas, l2 \in Lambdas :
          /\ l1 * l1 # l2 * l2
          /\ args = [Psi1 |-> Qty(p1, <<"rad">>), Psi2 |-> Qty(p2, <<"rad">>),
                     lambda1 |-> Qty(l1, <<"m">>), lambda2 |-> Qty(l2, <<"m">>)]
    /\ psi = Unset /\ diff = Unset /\ iters = 0
    /\ NoLocals

\* line 178
RMDifference ==
    /\ fn = "compute_RM" /\ pc = "entry"
    /\ diff' = AngleDifference(args.Psi1, args.Psi2)
    /\ pc' = "adjust"
    /\ UNCHANGED <<psi, iters, ret>>
    /\ PipelineUnchanged

\* line 182
RMAdjust ==
    /\ fn = "compute_RM" /\ pc = "adjust"
    /\ diff' = AdjustedDifference(diff)
    /\ pc' = "return"
    /\ UNCHANGED <<psi, iters, ret>>
    /\ PipelineUnchanged

\* line 184
RMReturn ==
    /\ fn = "compute_RM" /\ pc = "return"
    /\ ret' = RMQuotient(diff, args.lambda1, args.lambda2)
    /\ pc' = "done"
    /\ UNCHANGED <<psi, diff, iters>>
    /\ PipelineUnchanged

---------------------------------------------------------------------------
Init == InitAdjustAngles \/ InitAdjustDiff \/ InitStokes \/ InitFd \/ InitRM

Next ==
    \/ AdjustAnglesWhile1
    \/ AdjustAnglesWhile2
    \/ AdjustAnglesReturn
    \/ AdjustDiffWhile1
    \/ AdjustDiffWhile2
    \/ AdjustDiffReturn
    \/ StokesShim
    \/ StokesEmissivity
    \/ StokesPsi0
    \/ StokesDegenerate
    \/ StokesWrap
    \/ StokesFaraday
    \/ StokesQU
    \/ StokesBeam
    \/ StokesReturn
    \/ FdShim
    \/ FdIntegrate
    \/ FdBeam
    \/ FdReturn
    \/ RMDifference
    \/ RMAdjust
    \/ RMReturn

Spec == Init /\ [][Next]_vars

---------------------------------------------------------------------------
(* C1, in exact arithmetic: adjust_angles returns r with -pi < r <= pi and *)
(* r = theta - 2*pi*k for an integer k, and so gives the same result for   *)
(* theta + 2*pi*n.                                                         *)
C1_WrapCorrect ==
    (fn = "adjust_angles" /\ pc = "done") =>
        /\ -pi < ret /\ ret <= pi
        /\ (args.psi - ret) % (2 * pi) = 0
        /\ \A n \in -2 .. 2 : adjust_angles(args.psi + 2 * pi * n) = ret

\* a call several periods below zero that ended exactly on the boundary pi
C1_Witness ==
    /\ fn = "adjust_angles" /\ pc = "done"
    /\ args.psi = -3 * pi
    /\ ret = pi
    /\ iters = 2

---------------------------------------------------------------------------
(* C2 as stated, in exact arithmetic: _adjust_diff returns a value in the  *)
(* half-open interval (-pi/2, pi/2].  The code returns -pi/2 for           *)
(* d = -pi/2, where shifting by pi would not reduce |diff|.                *)
C2_HalfOpen ==
    (fn = "_adjust_diff" /\ pc = "done") =>
        (-pi < 2 * ret /\ 2 * ret <= pi)

(* C2, in exact arithmetic, with the interval closed: _adjust_diff returns *)
(* a value in [-pi/2, pi/2]; it returns the endpoint -pi/2 exactly when d  *)
(* is a negative odd multiple of pi/2.                                     *)
C2_Closed ==
    (fn = "_adjust_diff" /\ pc = "done") =>
        /\ -pi <= 2 * ret /\ 2 * ret <= pi
        /\ (2 * ret = -pi) <=>
               (args.diff < 0 /\ (2 * args.diff) % (2 * pi) = pi)

\* the call with d = -3*pi/2, which ends on the endpoint -pi/2
C2_Witness ==
    /\ fn = "_adjust_diff" /\ pc = "done"
    /\ 2 * args.diff = -3 * pi
    /\ 2 * ret = -pi
    /\ iters = 1

---------------------------------------------------------------------------
(* Positions of compute_stokes_parameters after a given statement *)

InStokes == fn = "compute_stokes_parameters"
InFd == fn = "compute_fd"
AfterEmissivity ==
    {"psi0", "degenerate", "wrap", "faraday", "stokes", "beam", "return",
     "done", "raised"}
AfterDegenerate == {"wrap", "faraday", "stokes", "beam", "return", "done", "raised"}
AfterWrap == {"faraday", "stokes", "beam", "return", "done", "raised"}
AfterFaraday == {"stokes", "beam", "return", "done"}
AfterQU == {"beam", "return", "done"}

---------------------------------------------------------------------------
(* C3 as stated: compute_stokes_parameters returns (I, Q, U): the second   *)
(* element is the Q map p0*integral(emissivity*cos(2*psi)), the third the  *)
(* U map p0*integral(emissivity*sin(2*psi)).  The code returns I, U, Q.    *)
C3_ReturnsIQU ==
    (InStokes /\ pc = "done") =>
        /\ ret[1] = I
        /\ ret[2] = Q
        /\ ret[3] = U

---------------------------------------------------------------------------
(* C4: with wavelength = 0 the cumulative Faraday integration is skipped   *)
(* (no conversion of Bz or ne is attempted, so none can fail), the Faraday *)
(* rotation is exactly zero and psi equals psi0 at every voxel.            *)
C4_ZeroWavelength ==
    (InStokes /\ args.wavelength.value = 0) =>
        /\ pc # "raised"
        /\ pc \in AfterFaraday => (RM.scalar /\ RM = ZeroRM)
        /\ pc \in AfterQU =>
              /\ psi = psi0
              /\ \A c \in Cols : \A k \in Ks :
                    Val(psi[c][k]) - Val(psi0[c][k]) = 0

\* a finished call with wavelength 0 on a column whose Faraday depth is not
\* zero and whose Bz is in a unit that is no magnetic field
C4_Witness ==
    /\ InStokes /\ pc = "done"
    /\ args.wavelength.value = 0
    /\ args.Bz.unit = <<"pc">>
    /\ \E c \in Cols : trapz([k \in Ks |-> args.Bz.value[c][k] * args.ne.value[c][k]],
                              depth_grid.value) # 0
    /\ \E c \in Cols : \E k \in Ks : psi[c][k] = Num(pi)

---------------------------------------------------------------------------
(* C5: where Bx = 0 and By = 0, psi0 is exactly 0 once the degenerate      *)
(* branch has run, before psi0 is read again, and nothing is raised; at    *)
(* every other voxel psi0 is atan(By/Bx) + pi/2: pi/2 where only By is 0,  *)
(* pi or 0 where only Bx is 0.                                             *)
C5_DegenerateField ==
    (InStokes /\ pc \in AfterDegenerate) =>
        \A c \in Cols : \A k \in Ks :
            LET bx == args.Bx.value[c][k]
                by == args.By.value[c][k]
            IN  /\ psi0[c][k] # NaN
                /\ (bx = 0 /\ by = 0) => psi0[c][k] = Num(0)
                /\ ~(bx = 0 /\ by = 0) =>
                      psi0[c][k] = Num(Val(arctan_ratio(by, bx)) + pi \div 2)
                /\ (bx # 0 /\ by = 0) => 2 * Val(psi0[c][k]) = pi
                /\ (bx = 0 /\ by > 0) => Val(psi0[c][k]) = pi
                /\ (bx = 0 /\ by < 0) => Val(psi0[c][k]) = 0

\* right after the degenerate branch: a voxel with Bx = By = 0 holds 0, and
\* voxels with only one zero component hold pi/2 and pi
C5_Witness ==
    /\ InStokes /\ pc = "wrap"
    /\ \E k \in Ks : /\ args.Bx.value[1][k] = 0 /\ args.By.value[1][k] = 0
                      /\ psi0[1][k] = Num(0)
    /\ \E k \in Ks : /\ args.Bx.value[1][k] = 0 /\ args.By.value[1][k] # 0
                      /\ psi0[1][k] = Num(pi)
    /\ \E k \in Ks : /\ args.Bx.value[1][k] # 0 /\ args.By.value[1][k] = 0
                      /\ 2 * Val(psi0[1][k]) = pi
    /\ warnings = <<"RuntimeWarning", "RuntimeWarning">>

---------------------------------------------------------------------------
(* C6: in every column the last sample of the cumulative Faraday integral  *)
(* of compute_stokes_parameters equals the Faraday depth compute_fd        *)
(* returns (no beam) for the same depth samples, Bz and ne; its first      *)
(* sample is 0 and its sample k is the integral over samples 1..k alone.   *)
C6_CumulativeEqualsTotal ==
    (InStokes /\ pc \in AfterFaraday /\ args.wavelength.value # 0) =>
        LET y == Integrand(args.Bz, args.ne)
            x == to_value1(depth_grid, "pc")
            fd == compute_fd([depth_grid |-> depth_grid, Bz |-> args.Bz,
                              ne |-> args.ne, beam_kernel_sd |-> None])
        IN  \A c \in Cols :
               /\ RM.value[c][NZ] = fd.value[c]
               /\ RM.value[c][1] = 0
               /\ \A k \in Ks :
                     RM.value[c][k] =
                        K0 * trapz(SubSeq(y[c], 1, k), SubSeq(x, 1, k))
               /\ RM.unit = fd.unit

\* unevenly spaced samples, Bz in mG, a column whose running integral rises
\* and falls again
C6_Witness ==
    /\ InStokes /\ pc = "stokes"
    /\ args.wavelength.value # 0
    /\ depth_grid.value = UnevenDepth
    /\ args.Bz.unit = <<"mG">>
    /\ RM.value[1][2] > 0
    /\ RM.value[1][NZ] < RM.value[1][2]
    /\ RM.value[1][NZ] # 0

---------------------------------------------------------------------------
(* C7: given a grid object with attribute z, compute_stokes_parameters and *)
(* compute_fd emit a DeprecationWarning (the step raises nothing), rebind  *)
(* depth_grid to its z array before any field is computed, and end as the  *)
(* call with that z array ends; given a bare array they emit no            *)
(* DeprecationWarning.                                                     *)
Deprecations == SelectSeq(warnings, LAMBDA w : w = "DeprecationWarning")

DirectArgs == [args EXCEPT !.depth_grid = args.depth_grid.z]

C7_LegacyShim ==
    (InStokes \/ InFd) =>
        IF HasZ(args.depth_grid)
        THEN /\ pc = "entry" => (depth_grid = args.depth_grid /\ warnings = <<>>)
             /\ pc # "entry" =>
                   /\ depth_grid = args.depth_grid.z
                   /\ Deprecations = <<"DeprecationWarning">>
                   /\ warnings[1] = "DeprecationWarning"
             /\ pc \in {"emissivity", "integrate"} =>
                   (emissivity = Unset /\ I = Unset /\ psi0 = Unset /\ RM = Unset
                    /\ ret = Unset)
             /\ (InStokes /\ pc \in {"done", "raised"}) =>
                   ret = compute_stokes_parameters(DirectArgs)
             /\ (InFd /\ pc \in {"done", "raised"}) =>
                   ret = compute_fd(DirectArgs)
        ELSE /\ Deprecations = <<>>
             /\ depth_grid = args.depth_grid

\* a legacy call of compute_stokes_parameters that returned maps that are
\* not all zero, after exactly one DeprecationWarning
C7_Witness ==
    /\ InStokes /\ pc = "done"
    /\ HasZ(args.depth_grid)
    /\ depth_grid.value = UnevenDepth
    /\ Deprecations = <<"DeprecationWarning">>
    /\ args.beam_kernel_sd = None
    /\ ret[1].value[1] # 0
    /\ ret[2].value[1] # 0

---------------------------------------------------------------------------
(* C8, step by step: with beam_kernel_sd None the beam stage leaves the   *)
(* integrated maps as they are; otherwise it replaces I, U, Q (and the     *)
(* Faraday depth) each by its own smoothed map with its unit kept.  The    *)
(* stage runs after every line-of-sight integral: until it runs the maps   *)
(* are the plain integrals, and the value returned is what it left.        *)
C8_BeamStep ==
    /\ (InStokes /\ pc = "beam") =>
          /\ I' = (IF args.beam_kernel_sd = None THEN I
                   ELSE Qty(gaussian_filter(I.value, args.beam_kernel_sd), I.unit))
          /\ U' = (IF args.beam_kernel_sd = None THEN U
                   ELSE Qty(gaussian_filter(U.value, args.beam_kernel_sd), U.unit))
          /\ Q' = (IF args.beam_kernel_sd = None THEN Q
                   ELSE Qty(gaussian_filter(Q.value, args.beam_kernel_sd), Q.unit))
          /\ I = IntegrateMap(emissivity, depth_grid)
          /\ U = StokesU(emissivity, psi, depth_grid, args.gamma)
          /\ Q = StokesQ(emissivity, psi, depth_grid, args.gamma)
    /\ (InFd /\ pc = "beam") =>
          /\ RM' = (IF args.beam_kernel_sd = None THEN RM
                    ELSE Qty(gaussian_filter(RM.value, args.beam_kernel_sd), RM.unit))
          /\ RM = FaradayDepth(args.Bz, args.ne, depth_grid)
    /\ (InStokes /\ pc = "return") => ret' = <<I, U, Q>>
    /\ (InFd /\ pc = "return") => ret' = RM
    /\ (InStokes /\ pc \in {"psi0", "degenerate", "wrap", "faraday", "stokes"}
           /\ pc' # "raised") =>
          I' = IntegrateMap(emissivity', depth_grid')

\* C8: every step of a call is a step as described above
C8_Beam == [][C8_BeamStep]_vars

\* after the beam stage with a kernel: the I and U maps differ from the
\* plain integrals, and the units are those of the integrals
C8_Witness ==
    /\ InStokes /\ pc = "return"
    /\ args.beam_kernel_sd # None
    /\ \E c \in Cols :
          I.value[c] # Decimal(IntegrateMap(emissivity, depth_grid).value[c], 0)
    /\ \E c \in Cols :
          U.value[c] #
              Decimal(StokesU(emissivity, psi, depth_grid, args.gamma).value[c], 0)
    /\ U.value # Q.value
    /\ I.unit = <<"cm-3", "uG", "uG", "m", "pc">>

---------------------------------------------------------------------------
(* C9 as stated: for every wavelength, a call in which Bz is not           *)
(* convertible to uG or ne not convertible to cm**-3 returns no maps.      *)
(* With wavelength = 0 compute_stokes_parameters never converts them.      *)
UnitMismatch ==
    \/ UnitDim(args.Bz.unit[1]) # "magnetic flux density"
    \/ UnitDim(args.ne.unit[1]) # "number density"

C9_AlwaysRaises ==
    ((InStokes \/ InFd) /\ UnitMismatch) => pc # "done"

(* C9 amended: compute_fd, and compute_stokes_parameters with a wavelength *)
(* other than 0, given Bz not convertible to uG or ne not convertible to   *)
(* cm**-3, form no integral and return no maps: they stop at the           *)
(* conversion with a UnitConversionError.  With wavelength = 0             *)
(* compute_stokes_parameters converts neither and returns its maps.        *)
C9_RaisesUnlessSkipped ==
    ((InStokes \/ InFd) /\ UnitMismatch) =>
        IF InFd \/ args.wavelength.value # 0
        THEN /\ pc \notin {"stokes", "beam", "return", "done"}
             /\ RM = Unset
             /\ ret = (IF pc = "raised" THEN Raised("UnitConversionError")
                       ELSE Unset)
        ELSE /\ pc # "raised"
             /\ pc = "done" => ret = <<I, U, Q>>

\* compute_stokes_parameters stopped by ne given in parsecs
C9_Witness ==
    /\ InStokes /\ pc = "raised"
    /\ args.ne.unit = <<"pc">>
    /\ args.wavelength.value # 0
    /\ ret = Raised("UnitConversionError")
    /\ I.value[1] # 0

---------------------------------------------------------------------------
(* C10: for strictly increasing depth samples, evenly spaced or not: a     *)
(* column with Bz = 0 throughout has Faraday depth 0 (and the whole map is *)
(* 0, beam or not, when Bz = 0 everywhere); a voxel with Bx # 0 and By = 0 *)
(* has psi0 = pi/2; a column of constant emissivity e has                  *)
(* I = e*(depth_max - depth_min).                                          *)
ColumnConstant(a, c) == \A k \in Ks : a[c][k] = a[c][1]

C10_ClosedForms ==
    /\ (InFd /\ pc = "beam") =>
          \A c \in Cols :
             (\A k \in Ks : args.Bz.value[c][k] = 0) => RM.value[c] = 0
    /\ (InFd /\ pc = "done"
           /\ \A c \in Cols : \A k \in Ks : args.Bz.value[c][k] = 0) =>
          \A c \in Cols :
             ret.value[c] = (IF args.beam_kernel_sd = None THEN 0
                             ELSE Decimal(0, 0))
    /\ (InStokes /\ pc \in AfterWrap) =>
          \A c \in Cols :
             (ColumnConstant(args.Bx.value, c) /\ args.Bx.value[c][1] # 0
                /\ \A k \in Ks : args.By.value[c][k] = 0) =>
                    \A k \in Ks : 2 * Val(psi0[c][k]) = pi
    /\ (InStokes /\ pc \in {"psi0", "degenerate", "wrap", "faraday", "stokes",
                              "beam"}) =>
          \A c \in Cols :
             ColumnConstant(emissivity.value, c) =>
                I.value[c] = emissivity.value[c][1]
                               * (depth_grid.value[NZ] - depth_grid.value[1])

\* unevenly spaced samples; the first column is made of different voxels of
\* equal, non-zero emissivity
C10_Witness ==
    /\ InStokes /\ pc = "beam"
    /\ depth_grid.value = UnevenDepth
    /\ ColumnConstant(emissivity.value, 1)
    /\ emissivity.value[1][1] # 0
    /\ ~ColumnConstant(args.By.value, 1)
    /\ I.value[1] = emissivity.value[1][1] * depth_grid.value[NZ]
    /\ ColumnConstant(args.Bx.value, 2) /\ args.Bx.value[2][1] < 0
    /\ 2 * Val(psi0[2][1]) = pi

---------------------------------------------------------------------------
(* C11 *)

\* the multiples of pi by which a value in Angles can be shifted
Shifts == -(MaxAngle \div pi + 2) .. (MaxAngle \div pi + 2)

(* C11, in exact arithmetic: one step of a call _adjust_diff(d).  A step    *)
(* that changes diff shifts it by exactly pi and strictly reduces |diff|.  *)
(* The returned value r is d + k*pi for an integer k, no representative    *)
(* d + k*pi is smaller in absolute value, |r| <= |d|, r = d whenever       *)
(* |d| <= pi/2 (the ties d = pi/2 and d = -pi/2 included), and             *)
(* _adjust_diff(r) = r.                                                    *)
C11_Step ==
    fn = "_adjust_diff" =>
        /\ diff' # diff =>
              /\ Abs(diff' - diff) = pi
              /\ Abs(diff') < Abs(diff)
        /\ (pc = "return" /\ pc' = "done") =>
              /\ (ret' - args.diff) % pi = 0
              /\ \A k \in Shifts : Abs(ret') <= Abs(args.diff + k * pi)
              /\ Abs(ret') <= Abs(args.diff)
              /\ 2 * Abs(args.diff) <= pi => ret' = args.diff
              /\ _adjust_diff(ret') = ret'

\* C11: every step of an exact-arithmetic call of _adjust_diff is such a step
C11_MinimalRepresentative == [][C11_Step]_vars

\* _adjust_diff(-3*pi/2) has returned -pi/2 after one shift, a tie it keeps
C11_Witness ==
    /\ fn = "_adjust_diff" /\ pc = "done"
    /\ 2 * args.diff = -3 * pi
    /\ 2 * ret = -pi
    /\ iters = 1

---------------------------------------------------------------------------
(* C12: the step of the inline wrap (lines 69-70) leaves every voxel of     *)
(* psi0 in (-pi, pi], and what it leaves is what adjust_angles returns for *)
(* the value the voxel held before the wrap, whether that value came from  *)
(* atan(By/Bx) + pi/2 (the boundary pi included) or from the degenerate    *)
(* branch (the value 0).                                                   *)
C12_WrapStep ==
    (InStokes /\ pc = "wrap") =>
        \A c \in Cols : \A k \in Ks :
            /\ psi0[c][k] # NaN
            /\ psi0'[c][k] # NaN
            /\ -pi < Val(psi0'[c][k]) /\ Val(psi0'[c][k]) <= pi
            /\ Val(psi0'[c][k]) = adjust_angles(Val(psi0[c][k]))

\* C12: every step of a call is a step as described above
C12_InlineWrap == [][C12_WrapStep]_vars

\* after the wrap: a voxel with Bx = 0 < By still holds pi, a voxel with
\* Bx = By = 0 still holds 0, and a column elsewhere holds an inner value
C12_Witness ==
    /\ InStokes /\ pc = "faraday"
    /\ \E k \in Ks : /\ args.Bx.value[1][k] = 0 /\ args.By.value[1][k] > 0
                      /\ psi0[1][k] = Num(pi)
    /\ \E k \in Ks : /\ args.Bx.value[1][k] = 0 /\ args.By.value[1][k] = 0
                      /\ psi0[1][k] = Num(0)
    /\ \E c \in Cols : \E k \in Ks : 4 * Val(psi0[c][k]) = 3 * pi

---------------------------------------------------------------------------
(* C13 *)

\* the field q cut down to its column c: a grid with that one column
OnlyColumn(q, c) == Qty(<<q.value[c]>>, q.unit)

\* the arguments a with every field cut down to column c; the scalars and
\* the depth axis are kept
ColumnStokes(a, c) ==
    [a EXCEPT !.Bx = OnlyColumn(a.Bx, c),
              !.By = OnlyColumn(a.By, c),
              !.Bz = OnlyColumn(a.Bz, c),
              !.ne = OnlyColumn(a.ne, c),
              !.ncr = OnlyColumn(a.ncr, c)]

ColumnFd(a, c) ==
    [a EXCEPT !.Bz = OnlyColumn(a.Bz, c),
              !.ne = OnlyColumn(a.ne, c)]

(* C13: one step of a call.  The arguments are left as the caller passed   *)
(* them.  With beam_kernel_sd = None, the value returned at pixel c (of    *)
(* each map of compute_stokes_parameters, of the map of compute_fd) is the *)
(* value a call returns that is given column c alone, with the same        *)
(* scalars and depth axis: so two calls that agree on column c return      *)
(* equal values at c, whatever their other columns hold.                   *)
C13_Step ==
    /\ args' = args
    /\ (pc' = "done" /\ InStokes /\ args.beam_kernel_sd = None) =>
          \A c \in Cols :
              LET alone == compute_stokes_parameters(ColumnStokes(args, c))
              IN  \A m \in 1 .. 3 : alone[m].value[1] = ret'[m].value[c]
    /\ (pc' = "done" /\ InFd /\ args.beam_kernel_sd = None) =>
          \A c \in Cols :
              compute_fd(ColumnFd(args, c)).value[1] = ret'.value[c]

\* C13: every step of a call is a step as described above
C13_ColumnLocal == [][C13_Step]_vars

\* a call without beam at wavelength 1 has returned: its columns hold
\* different fields and its maps differ between the pixels
C13_Witness ==
    /\ InStokes /\ pc = "done"
    /\ args.beam_kernel_sd = None
    /\ args.wavelength.value = 1
    /\ args.By.value[1] # args.By.value[2]
    /\ args.Bz.value[1] # args.Bz.value[2]
    /\ \A m \in 1 .. 3 : ret[m].value[1] # ret[m].value[2]

---------------------------------------------------------------------------
(* adjust_angles in float64 (its signature, line 186, is float64(float64)) *)
(* on numbers whose float64 arithmetic can be written down exactly:        *)
(*   [kind |-> "near", k |-> k]   the float64 k*np.pi, k in -2..2; adding  *)
(*       or subtracting 2*np.pi among these is exact;                      *)
(*   [kind |-> "far", sign |-> s, above |-> m]   the float64 s*(2^56 + m), *)
(*       m a positive multiple of 16: from 2^56 to 2^57 the float64        *)
(*       numbers are the multiples of 16.                                  *)

\* the far inputs are s*(2^56 + 16*n) for n in 1..MaxFar
MaxFar == 12

\* a call is followed for at most MaxIters loop iterations
MaxIters == 4

\* the distance between neighbouring float64 numbers from 2^56 to 2^57
F64Ulp == 16

\* np.pi in hundredths, rounded down
PiCenti == 314

F64Near(k) == [kind |-> "near", k |-> k]
F64Far(s, m) == [kind |-> "far", sign |-> s, above |-> m]

\* round-to-nearest, ties to even, onto the multiples of step
RoundNearestEven(v, step) ==
    LET lo == (v \div step) * step
        r == v - lo
    IN  IF 2 * r < step THEN lo
        ELSE IF 2 * r > step THEN lo + step
        ELSE IF (lo \div step) % 2 = 0 THEN lo ELSE lo + step

\* psi -= 2*pi (dir = -1, line 204) and psi += 2*pi (dir = 1, line 206):
\* the exact result rounded to float64.  For s*(2^56 + m) the exact result
\* is s*(2^56 + m + s*dir*2*pi), computed here in hundredths.
F64Shift(x, dir) ==
    IF x.kind = "near" THEN F64Near(x.k + 2 * dir)
    ELSE F64Far(x.sign,
                RoundNearestEven(100 * x.above + x.sign * dir * 2 * PiCenti,
                                 100 * F64Ulp) \div 100)

\* psi > pi
F64Cond1(x) == IF x.kind = "near" THEN x.k > 1 ELSE x.sign = 1

\* psi <= -pi
F64Cond2(x) == IF x.kind = "near" THEN x.k <= -1 ELSE x.sign = -1

F64Inputs ==
    {F64Near(k) : k \in -2 .. 2}
        \cup {F64Far(s, F64Ulp * n) : s \in {-1, 1}, n \in 1 .. MaxFar}

InitF64 ==
    /\ fn = "adjust_angles"
    /\ pc = "while1"
    /\ \E x \in F64Inputs : args = [psi |-> x] /\ psi = x
    /\ diff = Unset /\ iters = 0
    /\ NoLocals

\* lines 203-204
F64AdjustAnglesWhile1 ==
    /\ fn = "adjust_angles" /\ pc = "while1"
    /\ IF F64Cond1(psi)
          THEN /\ iters < MaxIters
               /\ psi' = F64Shift(psi, -1)
               /\ iters' = iters + 1
               /\ pc' = pc
          ELSE /\ pc' = "while2"
               /\ UNCHANGED <<psi, iters>>
    /\ UNCHANGED <<diff, ret>>
    /\ PipelineUnchanged

\* lines 205-206
F64AdjustAnglesWhile2 ==
    /\ fn = "adjust_angles" /\ pc = "while2"
    /\ IF F64Cond2(psi)
          THEN /\ iters < MaxIters
               /\ psi' = F64Shift(psi, 1)
               /\ iters' = iters + 1
               /\ pc' = pc
          ELSE /\ pc' = "return"
               /\ UNCHANGED <<psi, iters>>
    /\ UNCHANGED <<diff, ret>>
    /\ PipelineUnchanged

NextF64 ==
    \/ F64AdjustAnglesWhile1
    \/ F64AdjustAnglesWhile2
    \/ AdjustAnglesReturn

SpecF64 == InitF64 /\ [][NextF64]_vars

---------------------------------------------------------------------------
(* C14 *)

\* the float64 y lies from the float64 x in the direction dir (of the same
\* kind and, far from zero, of the same sign)
F64MovedToward(x, y, dir) ==
    IF x.kind = "near"
    THEN y.kind = "near" /\ y.k = x.k + 2 * dir
    ELSE /\ y.kind = "far" /\ y.sign = x.sign
         /\ x.sign * dir * (y.above - x.above) > 0

(* C14, for adjust_angles in float64: an iteration of the first loop moves *)
(* psi down and an iteration of the second loop moves it up, toward        *)
(* (-pi, pi], so that the loops terminate; once the second loop is entered *)
(* the test of the first stays false; and for the inputs k*pi the number   *)
(* of iterations is at most |input| / (2*pi) + 1.                          *)
C14_F64Step ==
    /\ (pc = "while1" /\ iters' = iters + 1) => F64MovedToward(psi, psi', -1)
    /\ (pc = "while2" /\ iters' = iters + 1) => F64MovedToward(psi, psi', 1)
    /\ pc' = "while2" => ~F64Cond1(psi')
    /\ args.psi.kind = "near" => iters' <= Abs(args.psi.k) \div 2 + 1

\* C14: every step of a float64 call of adjust_angles is such a step
C14_LoopsTerminate == [][C14_F64Step]_vars

(* C14, for both helpers in exact arithmetic: an iteration moves the value *)
(* by exactly one period, down in the first loop and up in the second;     *)
(* once the second loop is entered the test of the first stays false; the  *)
(* number of iterations is at most |input| / period + 1; and a call that   *)
(* has not returned can take a step.                                       *)
C14_ExactStep ==
    /\ fn = "adjust_angles" =>
          /\ (pc = "while1" /\ iters' = iters + 1) => psi' = psi - 2 * pi
          /\ (pc = "while2" /\ iters' = iters + 1) => psi' = psi + 2 * pi
          /\ pc' = "while2" => ~AdjustAnglesCond1(psi')
          /\ iters' <= Abs(args.psi) \div (2 * pi) + 1
    /\ fn = "_adjust_diff" =>
          /\ (pc = "while1" /\ iters' = iters + 1) => diff' = diff - pi
          /\ (pc = "while2" /\ iters' = iters + 1) => diff' = diff + pi
          /\ pc' = "while2" => ~DiffCond1(diff')
          /\ iters' <= Abs(args.diff) \div pi + 1
    /\ (fn \in {"adjust_angles", "_adjust_diff"} /\ pc' # "done") =>
          (ENABLED Next)'

\* C14: every step of an exact-arithmetic call of a helper is such a step
C14_ExactArithmetic == [][C14_ExactStep]_vars

---------------------------------------------------------------------------
(* C15 *)

\* the arguments a with the two measurements exchanged
Exchanged(a) ==
    [Psi1 |-> a.Psi2, Psi2 |-> a.Psi1, lambda1 |-> a.lambda2,
     lambda2 |-> a.lambda1]

(* C15: what compute_RM(Psi1, Psi2, lambda1, lambda2) returns is what      *)
(* compute_RM(Psi2, Psi1, lambda2, lambda1) returns, for wavelengths of    *)
(* different magnitude; and what _adjust_diff(d) returns is the negative   *)
(* of _adjust_diff(-d), the odd multiples of pi/2 included.                *)
C15_ExchangeSymmetric ==
    /\ (fn = "compute_RM" /\ pc = "done") => ret = compute_RM(Exchanged(args))
    /\ (fn = "_adjust_diff" /\ pc = "done") => _adjust_diff(-args.diff) = -ret

\* compute_RM has returned a rotation measure other than 0 for two angles
\* 3*pi/2 apart: the difference was shifted onto the tie pi/2
C15_Witness ==
    /\ fn = "compute_RM" /\ pc = "done"
    /\ 2 * (args.Psi2.value - args.Psi1.value) = 3 * pi
    /\ 2 * diff.value = pi
    /\ ret.value.num # 0

---------------------------------------------------------------------------
(* _adjust_diff in float64 (its signature, line 208, is float64(float64)), *)
(* on the numbers k*np.pi, k in -2..2, among which adding or subtracting   *)
(* np.pi is exact, and on the numbers s*(2^56 + m) above                   *)

\* diff - pi (dir = -1, lines 226-227) and diff + pi (dir = 1, lines
\* 228-229): the exact result rounded to float64
F64ShiftPi(x, dir) ==
    IF x.kind = "near" THEN F64Near(x.k + dir)
    ELSE F64Far(x.sign,
                RoundNearestEven(100 * x.above + x.sign * dir * PiCenti,
                                 100 * F64Ulp) \div 100)

\* abs(x) < abs(y), for two numbers of the same kind and sign
F64AbsLess(x, y) ==
    IF x.kind = "near" THEN Abs(x.k) < Abs(y.k) ELSE x.above < y.above

\* abs(diff-pi) < abs(diff)
F64DiffCond1(x) == F64AbsLess(F64ShiftPi(x, -1), x)

\* abs(diff+pi) < abs(diff)
F64DiffCond2(x) == F64AbsLess(F64ShiftPi(x, 1), x)

InitF64Diff ==
    /\ fn = "_adjust_diff"
    /\ pc = "while1"
    /\ \E x \in F64Inputs : args = [diff |-> x] /\ diff = x
    /\ psi = Unset /\ iters = 0
    /\ NoLocals

\* lines 226-227
F64AdjustDiffWhile1 ==
    /\ fn = "_adjust_diff" /\ pc = "while1"
    /\ IF F64DiffCond1(diff)
          THEN /\ iters < MaxIters
               /\ diff' = F64ShiftPi(diff, -1)
               /\ iters' = iters + 1
               /\ pc' = pc
          ELSE /\ pc' = "while2"
               /\ UNCHANGED <<diff, iters>>
    /\ UNCHANGED <<psi, ret>>
    /\ PipelineUnchanged

\* lines 228-229
F64AdjustDiffWhile2 ==
    /\ fn = "_adjust_diff" /\ pc = "while2"
    /\ IF F64DiffCond2(diff)
          THEN /\ iters < MaxIters
               /\ diff' = F64ShiftPi(diff, 1)
               /\ iters' = iters + 1
               /\ pc' = pc
          ELSE /\ pc' = "return"
               /\ UNCHANGED <<diff, iters>>
    /\ UNCHANGED <<psi, ret>>
    /\ PipelineUnchanged

NextF64Diff ==
    \/ F64AdjustDiffWhile1
    \/ F64AdjustDiffWhile2
    \/ AdjustDiffReturn

SpecF64Diff == InitF64Diff /\ [][NextF64Diff]_vars

\* y = x + k*pi for an integer k, for a y the loops have made of x: the
\* numbers k*np.pi differ by multiples of pi, and a number s*(2^56 + m)
\* that the shifts leave as it is differs from itself by 0*pi
F64CongruentPi(x, y) == x.kind = y.kind /\ (x.kind = "far" => y = x)

\* |x| <= pi/2: of the numbers above only 0; every s*(2^56 + m) is larger
\* than pi/2 in absolute value, and so is every k*np.pi with k # 0
F64WithinHalfPi(x) == x.kind = "near" /\ x.k = 0

---------------------------------------------------------------------------
(* C1, for adjust_angles in float64: the call returns, that is, it is      *)
(* never at a loop test that holds while the loop body leaves psi as it    *)
(* is; and the value returned is in (-pi, pi] and differs from theta by a  *)
(* multiple of 2*pi.                                                       *)
C1_ReturnsWrapped ==
    /\ ~(pc = "while1" /\ F64Cond1(psi) /\ F64Shift(psi, -1) = psi)
    /\ ~(pc = "while2" /\ F64Cond2(psi) /\ F64Shift(psi, 1) = psi)
    /\ pc = "done" =>
          /\ ret.kind = "near"
          /\ ret.k \in {0, 1}
          /\ (args.psi.k - ret.k) % 2 = 0

---------------------------------------------------------------------------
(* C2 as stated, for _adjust_diff in float64: the value returned is in the *)
(* half-open interval (-pi/2, pi/2] (of the numbers explored, only 0 is)   *)
(* and differs from d by a multiple of pi.                                 *)
C2_ReturnsInInterval ==
    pc = "done" =>
        /\ F64CongruentPi(args.diff, ret)
        /\ F64WithinHalfPi(ret)

---------------------------------------------------------------------------
(* C11, for _adjust_diff in float64, step by step: an iteration strictly   *)
(* reduces |diff|; the value r returned for d is of least absolute value   *)
(* among d + k*pi, hence within pi/2 of zero; |r| <= |d|; a d within pi/2  *)
(* of zero is returned as it is; and neither test holds for r, so that     *)
(* _adjust_diff(r) = r.                                                    *)
C11_F64Step ==
    /\ iters' = iters + 1 => F64AbsLess(diff', diff)
    /\ (pc = "return" /\ pc' = "done") =>
          /\ F64WithinHalfPi(ret')
          /\ ~F64AbsLess(args.diff, ret')
          /\ F64WithinHalfPi(args.diff) => ret' = args.diff
          /\ ~F64DiffCond1(ret') /\ ~F64DiffCond2(ret')

\* C11: every step of a float64 call of _adjust_diff is such a step
C11_LeastMagnitude == [][C11_F64Step]_vars

=============================================================================
